---- MODULE Spec2Model ----
(***************************************************************************)
(* The real-time audio pipeline of the Guyanese Language & Culture         *)
(* assistant: the App component of src/App.tsx, lines 1781-3076, the       *)
(* audio helpers of src/unnamed/part_000, and the life cycle of the        *)
(* compact App of src/App.tsx, lines 912-1677.                             *)
(*                                                                         *)
(* The browser runs one handler at a time.  Every action below is one      *)
(* handler run from its entry (or from the await it resumes at) to its     *)
(* next await or its end.  The continuations of `await decodeAudioData`    *)
(* are promise jobs: they run in the order they were queued (decodeQ).     *)
(***************************************************************************)
EXTENDS Integers, Sequences, FiniteSets, TLC

\* ----------------------------------------------------------------- bounds
MaxStarts == 2      \* start requests in one behaviour
MaxChunks == 3      \* audio payloads (live chunks and text-to-speech clips)
MaxClock  == 2      \* ticks of the output clock
MaxQueries == 2     \* text queries in one behaviour
MaxBytes  == 3      \* length of a byte sequence given to encode
MaxFrame  == 2      \* samples in a microphone frame given to createBlob

Attempts  == 1..MaxStarts
Durations == {1, 2}             \* AudioBuffer.duration of a decoded payload
Queries   == 1..MaxQueries
NoRef     == 0                  \* a ref holding null

VARIABLES
    mounted,                 \* the component is mounted
    sessionPromiseRef,       \* NoRef or the attempt whose connect() promise it holds
    mediaStreamRef,          \* NoRef or the attempt whose MediaStream it holds
    scriptProcessorRef,      \* NoRef or the attempt whose ScriptProcessorNode it holds
    analyserRef,             \* NoRef or the attempt whose AnalyserNode it holds
    audioContextRef,         \* NoRef or the attempt whose input AudioContext it holds
    sourcesRef,              \* ActiveSourceSet: ids of AudioBufferSourceNodes
    nextStartTimeRef,        \* the playback cursor
    isLiveApiConnected, liveApiConnecting, isAssistantSpeaking,
    liveError, textError,
    liveInputTranscription, liveOutputTranscription,
    startPc,                 \* where each startLiveConversation call is suspended
    conn,                    \* the websocket of each attempt
    thenSend, thenClose,     \* reactions pending on each attempt's connect() promise
    sent,                    \* sendRealtimeInput was called on the attempt's open session
    stream, node, ctx,       \* the MediaStream, ScriptProcessorNode, input AudioContext of each attempt
    now,                     \* outputAudioContext.currentTime
    decodeQ,                 \* continuations of `await decodeAudioData`, oldest first
    srcs,                    \* the source nodes whose 'ended' event has not been handled yet
    nChunks,                 \* audio payloads received so far
    lastSched,               \* the live chunk that source.start was called for last
    resetSince,              \* the cursor was reset since the last source.start of a live chunk
    hasGetUserMedia,         \* the host has navigator.mediaDevices.getUserMedia
    hasAudioContext,         \* the host has window.AudioContext
    isLiveApiSupported,      \* what the mount effect found
    isLoadingText,           \* a text query is shown as running
    textAbortControllerRef,  \* NoRef or the query whose AbortController it holds
    textPc,                  \* where each handleTextQuery call is suspended
    aborted,                 \* abort() was called on the query's controller
    bytesIn,                 \* the Uint8Array given to encode
    frame,                   \* the Float32Array given to createBlob, in units of 1/Unit
    base64,                  \* the string made by btoa: sextets 0..63 and Pad
    bytesOut,                \* the Uint8Array made by decode
    buffer,                  \* the channel data made by decodeAudioData, in units of 1/Scale
    codecPc,                 \* how far the helpers have been applied
    lastEvt,                 \* the handler that ran last
    threw                    \* the handler that ran last ended by an uncaught exception

refs     == <<sessionPromiseRef, mediaStreamRef, scriptProcessorRef, analyserRef, audioContextRef>>
flags    == <<isLiveApiConnected, liveApiConnecting>>
errors   == <<liveError, textError>>
scripts  == <<liveInputTranscription, liveOutputTranscription>>
promises == <<thenSend, thenClose>>
devices  == <<stream, node, ctx>>
playback == <<sourcesRef, nextStartTimeRef, isAssistantSpeaking, srcs, resetSince>>
chunks   == <<decodeQ, nChunks, lastSched>>
host     == <<hasGetUserMedia, hasAudioContext, isLiveApiSupported>>
query    == <<textAbortControllerRef, textPc, aborted>>
codec    == <<bytesIn, frame, base64, bytesOut, buffer, codecPc>>
others   == <<host, query, codec>>
vars     == <<mounted, others, isLoadingText, refs, flags, errors, scripts, startPc, conn,
              promises, sent, devices, now, playback, chunks, lastEvt, threw>>

\* A string is kept as "" (empty) or "t" (some text).
Concat(prev, text) == IF prev = "" /\ text = "" THEN "" ELSE "t"

Max(a, b) == IF a >= b THEN a ELSE b

\* No live chunk has been started yet.
NoSched == [id |-> 0, start |-> 0, end |-> 0, contiguous |-> FALSE, behind |-> FALSE]

\* ------------------------------------------------- src/unnamed/part_000

Scale == 32768                  \* the factor of createBlob and decodeAudioData
Unit  == 4 * Scale              \* samples are multiples of 1/Unit (exact in Float32)
Steps == Unit \div Scale        \* sample units in one 16-bit step
Pad   == 64                     \* the character "=" of a base64 string

Abs(n) == IF n < 0 THEN -n ELSE n

\* Every sequence over S of length 0..n.
SeqsUpTo(S, n) == UNION {[1..k -> S] : k \in 0..n}

\* Bytes and samples the helpers are applied to: the ends of the ranges,
\* both sides of the sign bit and of a sextet boundary, values between two
\* 16-bit steps.
Bytes == {0, 1, 63, 128, 255}
Samples == {-Unit, -Unit + 1, -Scale - 5, -3, 0, 3, Scale + 5, Unit - 1, Unit}

\* btoa of a binary string, given as its character codes.
RECURSIVE btoa(_)
btoa(bin) ==
    IF Len(bin) = 0 THEN <<>>
    ELSE IF Len(bin) = 1
         THEN <<bin[1] \div 4, (bin[1] % 4) * 16, Pad, Pad>>
    ELSE IF Len(bin) = 2
         THEN <<bin[1] \div 4, ((bin[1] % 4) * 16) + (bin[2] \div 16), (bin[2] % 16) * 4, Pad>>
    ELSE <<bin[1] \div 4, ((bin[1] % 4) * 16) + (bin[2] \div 16),
           ((bin[2] % 16) * 4) + (bin[3] \div 64), bin[3] % 64>>
         \o btoa(SubSeq(bin, 4, Len(bin)))

\* An atob that makes three characters of every group of four.
RECURSIVE atobIgnoresPad(_)
atobIgnoresPad(str) ==
    IF Len(str) < 4 THEN <<>>
    ELSE <<(str[1] * 4) + ((str[2] % 64) \div 16),
           (((str[2] % 64) % 16) * 16) + ((str[3] % 64) \div 4),
           (((str[3] % 64) % 4) * 64) + (str[4] % 64)>>
         \o atobIgnoresPad(SubSeq(str, 5, Len(str)))

\* atob of a padded base64 string: the character codes of the binary string.
RECURSIVE atob(_)
atob(str) ==
    IF Len(str) < 4 THEN <<>>
    ELSE (IF str[3] = Pad
          THEN <<(str[1] * 4) + (str[2] \div 16)>>
          ELSE IF str[4] = Pad
          THEN <<(str[1] * 4) + (str[2] \div 16), ((str[2] % 16) * 16) + (str[3] \div 4)>>
          ELSE <<(str[1] * 4) + (str[2] \div 16), ((str[2] % 16) * 16) + (str[3] \div 4),
                 ((str[3] % 4) * 64) + str[4]>>)
         \o atob(SubSeq(str, 5, Len(str)))

\* decode: atob, then each character code stored in a Uint8Array.
decode(str) == [i \in 1..Len(atob(str)) |-> atob(str)[i] % 256]

\* encode: String.fromCharCode of each byte, then btoa.
encode(bytes) == btoa([i \in 1..Len(bytes) |-> bytes[i]])

\* A store into an Int16Array: the fraction is dropped (towards zero) and the
\* integer is taken modulo 2^16 into -32768..32767.
ToInt16(num, den) ==
    LET t == IF num >= 0 THEN num \div den ELSE -((-num) \div den)
    IN ((t + 32768) % 65536) - 32768

\* The two bytes of an Int16Array element as a Uint8Array over the same
\* buffer shows them (little-endian).
RECURSIVE Int16Bytes(_)
Int16Bytes(ints) ==
    IF ints = <<>> THEN <<>>
    ELSE <<(Head(ints) + 65536) % 256, ((Head(ints) + 65536) % 65536) \div 256>>
         \o Int16Bytes(Tail(ints))

\* createBlob: data[i] * 32768 stored as Int16, the bytes encoded.  A sample
\* of n units is n / Unit, so its product with 32768 is n / Steps.
createBlob(data) ==
    encode(Int16Bytes([i \in 1..Len(data) |-> ToInt16(data[i], Steps)]))

\* decodeAudioData for one channel: the bytes read as Int16, each divided by
\* 32768.  The result is kept as the numerators over Scale.
decodeAudioData(data) ==
    [i \in 1..(Len(data) \div 2) |->
        LET u == data[(2 * i) - 1] + (256 * data[2 * i])
        IN IF u >= 32768 THEN u - 65536 ELSE u]

\* checkLiveApiSupport of the mount effect: both host APIs must exist.
checkLiveApiSupport(mediaDevices, audioContext) == mediaDevices /\ audioContext

\* The component after its mount effect has run, on a host with or without
\* the two APIs.
InitApp ==
    /\ mounted = TRUE
    /\ hasGetUserMedia \in BOOLEAN /\ hasAudioContext \in BOOLEAN
    /\ isLiveApiSupported = checkLiveApiSupport(hasGetUserMedia, hasAudioContext)
    /\ isLoadingText = FALSE
    /\ textAbortControllerRef = NoRef
    /\ textPc = [q \in Queries |-> "none"]
    /\ aborted = [q \in Queries |-> FALSE]
    /\ sessionPromiseRef = NoRef /\ mediaStreamRef = NoRef /\ scriptProcessorRef = NoRef
    /\ analyserRef = NoRef /\ audioContextRef = NoRef
    /\ sourcesRef = {} /\ nextStartTimeRef = 0
    /\ isLiveApiConnected = FALSE /\ liveApiConnecting = FALSE /\ isAssistantSpeaking = FALSE
    /\ liveError = "null" /\ textError = "null"
    /\ liveInputTranscription = "" /\ liveOutputTranscription = ""
    /\ startPc = [k \in Attempts |-> "none"]
    /\ conn = [k \in Attempts |-> "none"]
    /\ thenSend = [k \in Attempts |-> FALSE]
    /\ thenClose = [k \in Attempts |-> FALSE]
    /\ sent = [k \in Attempts |-> FALSE]
    /\ stream = [k \in Attempts |-> "none"]
    /\ node = [k \in Attempts |-> "none"]
    /\ ctx = [k \in Attempts |-> "none"]
    /\ now = 0
    /\ decodeQ = <<>>
    /\ srcs = {}
    /\ nChunks = 0
    /\ lastSched = NoSched
    /\ resetSince = FALSE
    /\ lastEvt = "init"
    /\ threw = FALSE

\* No helper input is under study.
Init ==
    /\ InitApp
    /\ bytesIn = <<>> /\ frame = <<>> /\ base64 = <<>> /\ bytesOut = <<>> /\ buffer = <<>>
    /\ codecPc = "off"

\* A byte sequence for encode, or a frame of samples for createBlob.
InitCodec ==
    /\ InitApp /\ isLiveApiSupported
    /\ \/ bytesIn \in SeqsUpTo(Bytes, MaxBytes) /\ frame = <<>> /\ codecPc = "bytes"
       \/ bytesIn = <<>> /\ frame \in SeqsUpTo(Samples, MaxFrame) /\ codecPc = "frame"
    /\ base64 = <<>> /\ bytesOut = <<>> /\ buffer = <<>>

\* ------------------------------------------------------------ teardown

\* One release call (track.stop(), node.disconnect(), context.close()) on a
\* device: a second call on the same device is a double release.
Release(s) == IF s = "live" THEN "released" ELSE "double"

\* session.close() on the websocket of attempt k.
SessionClose(c, k) == [c EXCEPT ![k] = IF @ = "open" THEN "closing" ELSE @]

\* source.stop() on every handle of the set (a failure is swallowed): each
\* stopped source fires its 'ended' event later.
Stopped(s) == [s EXCEPT !.stopped = TRUE, !.end = 0]
StopSources(S, all) == {IF s.id \in S THEN Stopped(s) ELSE s : s \in all}

\* A stopAllAudioPlayback that stops the sources but forgets to clear the set.
stopAllKeepsSet ==
    /\ srcs' = StopSources(sourcesRef, srcs)
    /\ sourcesRef' = sourcesRef
    /\ nextStartTimeRef' = 0
    /\ isAssistantSpeaking' = FALSE
    /\ resetSince' = TRUE

stopAllAudioPlayback ==
    /\ srcs' = StopSources(sourcesRef, srcs)
    /\ sourcesRef' = {}
    /\ nextStartTimeRef' = 0
    /\ isAssistantSpeaking' = FALSE
    /\ resetSince' = TRUE

\* A stopLiveConversation that releases the input stream and the nodes but
\* leaves the refs set.
StopCaptureKeepsRefs ==
    /\ stream' = IF mediaStreamRef # NoRef
                 THEN [stream EXCEPT ![mediaStreamRef] = Release(@)] ELSE stream
    /\ node' = IF scriptProcessorRef # NoRef
               THEN [node EXCEPT ![scriptProcessorRef] = Release(@)] ELSE node
    /\ ctx' = IF audioContextRef # NoRef
              THEN [ctx EXCEPT ![audioContextRef] = Release(@)] ELSE ctx
    /\ UNCHANGED <<mediaStreamRef, scriptProcessorRef, analyserRef, audioContextRef>>

\* The part of stopLiveConversation that stops the input stream and
\* disconnects the nodes: each ref is released if it is set, and cleared.
StopCapture ==
    /\ stream' = IF mediaStreamRef # NoRef
                 THEN [stream EXCEPT ![mediaStreamRef] = Release(@)] ELSE stream
    /\ mediaStreamRef' = NoRef
    /\ node' = IF scriptProcessorRef # NoRef
               THEN [node EXCEPT ![scriptProcessorRef] = Release(@)] ELSE node
    /\ scriptProcessorRef' = NoRef
    /\ analyserRef' = NoRef
    /\ ctx' = IF audioContextRef # NoRef
              THEN [ctx EXCEPT ![audioContextRef] = Release(@)] ELSE ctx
    /\ audioContextRef' = NoRef

\* The handlers that end by calling stopLiveConversation leave one of these
\* in lastEvt; "stopAgain" when the handler before them was one of them too.
StopEvts == {"stop", "unmount", "error", "crisis", "startFailed", "micDenied",
             "contextMissing", "stopAgain"}
StopLabel(name) == IF lastEvt \in StopEvts THEN "stopAgain" ELSE name

\* stopLiveConversation, called while the websockets are in state c.
stopLiveConversation(c) ==
    /\ IF sessionPromiseRef # NoRef /\ c[sessionPromiseRef] = "connecting"
       THEN /\ thenClose' = [thenClose EXCEPT ![sessionPromiseRef] = TRUE]
            /\ conn' = c
       ELSE /\ thenClose' = thenClose
            /\ conn' = IF sessionPromiseRef # NoRef THEN SessionClose(c, sessionPromiseRef) ELSE c
    /\ sessionPromiseRef' = NoRef
    /\ StopCapture
    /\ stopAllAudioPlayback
    /\ isLiveApiConnected' = FALSE
    /\ liveApiConnecting' = FALSE

\* A handleApiError that resets the flags and reports nothing.
handleApiErrorSilent(err) ==
    /\ isLoadingText' = FALSE
    /\ liveApiConnecting' = FALSE
    /\ textError' = "null"
    /\ liveError' = "null"

\* handleApiError: an AbortError clears the messages, any other error sets them.
handleApiError(err) ==
    /\ isLoadingText' = FALSE
    /\ liveApiConnecting' = FALSE
    /\ textError' = IF err = "abort" THEN "null" ELSE "api"
    /\ liveError' = IF err = "abort" THEN "null" ELSE "api"

\* A catch block that reports the decode error and drops the session handle.
catchDropsSession ==
    /\ handleApiError("error")
    /\ sessionPromiseRef' = NoRef
    /\ isLiveApiConnected' = FALSE
    /\ UNCHANGED <<mediaStreamRef, scriptProcessorRef, analyserRef, audioContextRef>>

\* The catch block around `await decodeAudioData` in onmessage: it reports
\* and touches neither a ref nor the connected flag.
catchDecodeError ==
    /\ handleApiError("error")
    /\ UNCHANGED <<refs, isLiveApiConnected>>

\* ------------------------------------------------------- user and React

\* The live button while it reads "Stop Conversation".
\* decodeAudioData has no await of its own, so the continuation of
\* `await decodeAudioData(...)` is a promise job of the task that called it:
\* it runs before the next task, and at the same reading of the clock.  Only
\* the callbacks the SDK makes (onopen, onmessage, onerror, onclose) are not
\* known to start a task each; everything else waits for the jobs to finish.
Idle == decodeQ = <<>>

UserStop ==
    /\ Idle
    /\ mounted /\ isLiveApiConnected /\ ~liveApiConnecting
    /\ stopLiveConversation(conn)
    /\ lastEvt' = StopLabel("stop") /\ threw' = FALSE
    /\ UNCHANGED <<mounted, others, isLoadingText, errors, scripts, startPc, thenSend, sent, now, chunks>>

\* The cleanup of the mount effect.
Unmount ==
    /\ Idle
    /\ mounted
    /\ mounted' = FALSE
    /\ stopLiveConversation(conn)
    /\ lastEvt' = StopLabel("unmount") /\ threw' = FALSE
    /\ UNCHANGED <<others, isLoadingText, errors, scripts, startPc, thenSend, sent, now, chunks>>

\* A live button that is disabled only while a start is in progress.
ButtonIgnoresSupport == ~liveApiConnecting

\* The live button is disabled while a start is in progress and on a host
\* that lacks an API.
LiveButtonEnabled == ~liveApiConnecting /\ isLiveApiSupported

\* A click on the disabled live button: no handler runs.
StartRefused ==
    /\ Idle
    /\ mounted /\ ~LiveButtonEnabled
    /\ lastEvt' = "startRefused" /\ threw' = FALSE
    /\ UNCHANGED <<mounted, others, isLoadingText, refs, flags, errors, scripts, startPc, conn,
                   promises, sent, devices, now, playback, chunks>>

\* The live button while it reads "Start Conversation": startLiveConversation
\* up to its first await.  Without the AI Studio functions it throws into
\* its own catch block.
Start(k, sdk) ==
    /\ Idle
    /\ mounted /\ ~isLiveApiConnected /\ LiveButtonEnabled
    /\ startPc[k] = "none" /\ \A j \in Attempts : j < k => startPc[j] # "none"
    /\ liveInputTranscription' = "" /\ liveOutputTranscription' = ""
    /\ threw' = FALSE
    /\ IF sdk
       THEN /\ liveApiConnecting' = TRUE
            /\ liveError' = "null"
            /\ startPc' = [startPc EXCEPT ![k] = "awaitKey"]
            /\ lastEvt' = "start"
            /\ UNCHANGED <<isLoadingText, refs, isLiveApiConnected, textError, conn,
                           promises, devices, playback>>
       ELSE /\ handleApiError("error")
            /\ stopLiveConversation(conn)
            /\ startPc' = [startPc EXCEPT ![k] = "done"]
            /\ lastEvt' = StopLabel("startFailed")
            /\ UNCHANGED thenSend
    /\ UNCHANGED <<mounted, others, sent, now, chunks>>

\* `await window.aistudio.hasSelectedApiKey()` resolves.
KeyChecked(k, hasKey) ==
    /\ Idle
    /\ startPc[k] = "awaitKey"
    /\ startPc' = [startPc EXCEPT ![k] = IF hasKey THEN "awaitMic" ELSE "awaitSelect"]
    /\ lastEvt' = "key" /\ threw' = FALSE
    /\ UNCHANGED <<mounted, others, isLoadingText, refs, flags, errors, scripts, conn, promises, sent,
                   devices, now, playback, chunks>>

\* `await window.aistudio.openSelectKey()` resolves.
KeySelected(k) ==
    /\ Idle
    /\ startPc[k] = "awaitSelect"
    /\ startPc' = [startPc EXCEPT ![k] = "awaitMic"]
    /\ lastEvt' = "key" /\ threw' = FALSE
    /\ UNCHANGED <<mounted, others, isLoadingText, refs, flags, errors, scripts, conn, promises, sent,
                   devices, now, playback, chunks>>

\* `await getUserMedia` resolves: the stream and the input context are stored
\* and the connection is opened.
MicGranted(k) ==
    /\ Idle
    /\ startPc[k] = "awaitMic"
    /\ startPc' = [startPc EXCEPT ![k] = "done"]
    /\ mediaStreamRef' = k
    /\ stream' = [stream EXCEPT ![k] = "live"]
    /\ audioContextRef' = k
    /\ ctx' = [ctx EXCEPT ![k] = "live"]
    /\ sessionPromiseRef' = k
    /\ conn' = [conn EXCEPT ![k] = "connecting"]
    /\ lastEvt' = "mic" /\ threw' = FALSE
    /\ UNCHANGED <<mounted, others, isLoadingText, scriptProcessorRef, analyserRef, flags, errors, scripts,
                   promises, sent, node, now, playback, chunks>>

\* `await getUserMedia` rejects: the catch block of startLiveConversation.
MicDenied(k) ==
    /\ Idle
    /\ startPc[k] = "awaitMic"
    /\ startPc' = [startPc EXCEPT ![k] = "done"]
    /\ handleApiError("error")
    /\ stopLiveConversation(conn)
    /\ lastEvt' = StopLabel("micDenied") /\ threw' = FALSE
    /\ UNCHANGED <<mounted, others, scripts, thenSend, sent, now, chunks>>

\* ------------------------------------------------------ session callbacks

\* The websocket of attempt k opens: the onopen callback, then the connect()
\* promise resolves and the reactions registered on it run, sends before the
\* close that a teardown registered.  createMediaStreamSource throws on a
\* null stream; on a closed input context the browser decides.
onopen(k) ==
    /\ conn[k] = "connecting"
    /\ \E refused \in (IF ctx[k] = "live" THEN {FALSE} ELSE BOOLEAN) :
        LET wired == mediaStreamRef # NoRef /\ ~refused IN
        /\ isLiveApiConnected' = TRUE
        /\ liveApiConnecting' = FALSE
        /\ analyserRef' = IF wired THEN k ELSE analyserRef
        /\ scriptProcessorRef' = IF wired THEN k ELSE scriptProcessorRef
        /\ node' = IF wired THEN [node EXCEPT ![k] = "live"] ELSE node
        /\ threw' = ~wired
    /\ sent' = [sent EXCEPT ![k] = @ \/ thenSend[k]]
    /\ thenSend' = [thenSend EXCEPT ![k] = FALSE]
    /\ thenClose' = [thenClose EXCEPT ![k] = FALSE]
    /\ conn' = [conn EXCEPT ![k] = IF thenClose[k] THEN "closing" ELSE "open"]
    /\ lastEvt' = "open"
    /\ UNCHANGED <<mounted, others, isLoadingText, sessionPromiseRef, mediaStreamRef, audioContextRef, errors,
                   scripts, startPc, stream, ctx, now, playback, chunks>>

\* The reaction of a capture callback attached with `.then` in place of
\* `?.then`: a cleared handle is a TypeError.
SendWithoutGuard(h) ==
    /\ threw' = (h = NoRef)
    /\ IF h = NoRef
       THEN UNCHANGED <<thenSend, sent>>
       ELSE IF conn[h] = "connecting"
            THEN thenSend' = [thenSend EXCEPT ![h] = TRUE] /\ sent' = sent
            ELSE /\ sent' = [sent EXCEPT ![h] = @ \/ conn[h] = "open"]
                 /\ thenSend' = thenSend

\* The reaction `session => session.sendRealtimeInput(...)` that a capture
\* callback attaches to the promise held by handle h; with the handle
\* cleared, `?.` skips the whole chain.
SendRealtimeInput(h) ==
    /\ threw' = FALSE
    /\ IF h = NoRef
       THEN UNCHANGED <<thenSend, sent>>
       ELSE IF conn[h] = "connecting"
            THEN thenSend' = [thenSend EXCEPT ![h] = TRUE] /\ sent' = sent
            ELSE /\ sent' = [sent EXCEPT ![h] = @ \/ conn[h] = "open"]
                 /\ thenSend' = thenSend

\* onaudioprocess of the processing node of attempt k: the node is connected,
\* has its handler and its context is running.
onaudioprocess(k) ==
    /\ Idle
    /\ node[k] = "live" /\ ctx[k] = "live"
    /\ SendRealtimeInput(sessionPromiseRef)
    /\ lastEvt' = "frame"
    /\ UNCHANGED <<mounted, others, isLoadingText, refs, flags, errors, scripts, startPc, conn, thenClose,
                   devices, now, playback, chunks>>

\* A cursor that is left where it is when a chunk arrives.
ArrivalCursorKeeps(c, t) == c

\* A cursor that follows the clock and forgets what is already scheduled.
ArrivalCursorClock(c, t) == t

\* The cursor when a chunk arrives at clock time t: never in the past.
ArrivalCursor(c, t) == Max(c, t)

\* A live chunk is still waiting for its decode.
LiveWaiting(q) == \E i \in 1..Len(q) : q[i].kind = "live"

\* The block `if (interrupted) {...}` of onmessage, on the set S.
\* An interruption that stops and clears the sources but keeps the cursor.
InterruptionKeepsCursor(S, all) ==
    /\ srcs' = StopSources(S, all)
    /\ sourcesRef' = {}
    /\ isAssistantSpeaking' = FALSE
    /\ nextStartTimeRef' = nextStartTimeRef
    /\ resetSince' = TRUE

Interruption(S, all) ==
    /\ srcs' = StopSources(S, all)
    /\ sourcesRef' = {}
    /\ isAssistantSpeaking' = FALSE
    /\ nextStartTimeRef' = 0
    /\ resetSince' = TRUE

\* An interruption block that drops the session handle and the connected flag.
InterruptionClosesSession ==
    /\ sessionPromiseRef' = NoRef
    /\ isLiveApiConnected' = FALSE
    /\ UNCHANGED <<mediaStreamRef, scriptProcessorRef, analyserRef, audioContextRef,
                   liveApiConnecting>>

\* What the interruption block does to the session: it touches no ref and
\* no flag of the connection.
InterruptionSession == UNCHANGED <<refs, flags>>

Messages ==
    [input : {"none", "text", "crisis"}, output : BOOLEAN, turnComplete : BOOLEAN,
     audio : {"none", "ok", "badBase64", "badPcm"}, dur : Durations, interrupted : BOOLEAN]

\* A transcript that keeps growing over a turnComplete.
TurnTranscriptKeeps(prev, text, turnComplete) == Concat(prev, text)

\* A transcript buffer after a message: the fragment is appended, and the
\* buffer is emptied when the message closes the turn.
TurnTranscript(prev, text, turnComplete) ==
    IF turnComplete THEN "" ELSE Concat(prev, text)

\* A keyword check that matches nothing.
checkSuicidalNever(input) == FALSE

\* checkSuicidalIntent on the transcription fragment of a message.
checkSuicidalIntent(input) == input = "crisis"

\* onmessage up to its await (or to its end when it does not await).
onmessage(k, m) ==
    /\ conn[k] = "open"
    /\ m.audio # "ok" => m.dur = 1
    /\ m.audio \in {"ok", "badPcm"} /\ ~checkSuicidalIntent(m.input) => nChunks < MaxChunks
    /\ threw' = FALSE
    /\ IF checkSuicidalIntent(m.input)
       THEN /\ stopLiveConversation(conn)
            /\ lastEvt' = StopLabel("crisis")
            /\ UNCHANGED <<isLoadingText, errors, scripts, thenSend, chunks>>
       ELSE /\ liveOutputTranscription' =
                   TurnTranscript(liveOutputTranscription, IF m.output THEN "t" ELSE "",
                                  m.turnComplete)
            /\ liveInputTranscription' =
                   TurnTranscript(liveInputTranscription, IF m.input = "text" THEN "t" ELSE "",
                                  m.turnComplete)
            /\ UNCHANGED <<conn, promises, devices, lastSched>>
            /\ CASE m.audio = "none" ->
                     /\ IF m.interrupted
                        THEN Interruption(sourcesRef, srcs) /\ InterruptionSession
                        ELSE UNCHANGED <<playback, refs, flags>>
                     /\ lastEvt' = IF m.interrupted THEN "interrupted"
                                  ELSE IF m.turnComplete THEN "turnComplete" ELSE "message"
                     /\ UNCHANGED <<isLoadingText, errors, decodeQ, nChunks>>
                 [] m.audio = "badBase64" ->
                     /\ catchDecodeError
                     /\ IF m.interrupted
                        THEN Interruption(sourcesRef, srcs)
                        ELSE /\ nextStartTimeRef' = ArrivalCursor(nextStartTimeRef, now)
                             /\ isAssistantSpeaking' = FALSE
                             /\ UNCHANGED <<sourcesRef, srcs, resetSince>>
                     /\ lastEvt' = IF m.interrupted THEN "interrupted" ELSE "decodeFailed"
                     /\ UNCHANGED <<decodeQ, nChunks>>
                 [] OTHER ->
                     /\ nextStartTimeRef' = ArrivalCursor(nextStartTimeRef, now)
                     /\ nChunks' = nChunks + 1
                     /\ decodeQ' = Append(decodeQ,
                            [kind |-> "live", sess |-> k, id |-> nChunks + 1,
                             ok |-> m.audio = "ok", dur |-> m.dur, intr |-> m.interrupted,
                             arr |-> now, behind |-> LiveWaiting(decodeQ),
                             sched |-> ArrivalCursor(nextStartTimeRef, now)])
                     /\ lastEvt' = "message"
                     /\ UNCHANGED <<isLoadingText, refs, flags, errors, sourcesRef,
                                    isAssistantSpeaking, srcs, resetSince>>
    /\ UNCHANGED <<mounted, others, startPc, sent, now>>

onerror(k) ==
    /\ conn[k] \in {"connecting", "open"}
    /\ liveError' = "error"
    /\ stopLiveConversation([conn EXCEPT ![k] = "closing"])
    /\ lastEvt' = StopLabel("error") /\ threw' = FALSE
    /\ UNCHANGED <<mounted, others, isLoadingText, textError, scripts, startPc, thenSend, sent, now, chunks>>

CloseCodes == {1000, 1006}

onclose(k, code) ==
    /\ conn[k] \in {"connecting", "open", "closing"}
    /\ conn' = [conn EXCEPT ![k] = "closed"]
    /\ isLiveApiConnected' = FALSE
    /\ liveApiConnecting' = FALSE
    /\ liveError' = IF code # 1000 THEN "closed1006" ELSE liveError
    /\ liveInputTranscription' = "" /\ liveOutputTranscription' = ""
    /\ isAssistantSpeaking' = FALSE
    /\ lastEvt' = (IF code # 1000 THEN "closeAbnormal" ELSE "close") /\ threw' = FALSE
    /\ UNCHANGED <<mounted, others, isLoadingText, refs, textError, startPc, promises, sent, devices, now,
                   sourcesRef, nextStartTimeRef, srcs, resetSince, chunks>>

\* ---------------------------------------------------------------- playback

\* Jobs taken last in, first out.
ResumeLast(q) == Len(q)

\* The continuation that runs next: promise jobs run first in, first out.
ResumeAt(q) == 1
Without(q, i) == SubSeq(q, 1, i - 1) \o SubSeq(q, i + 1, Len(q))

\* The continuation of `await decodeAudioData` of the oldest pending payload.
Decoded ==
    /\ decodeQ # <<>>
    /\ LET c == decodeQ[ResumeAt(decodeQ)]
           src == [id |-> c.id, kind |-> c.kind, intr |-> c.intr,
                   end |-> Max(IF c.kind = "live" THEN nextStartTimeRef ELSE now, now) + c.dur,
                   stopped |-> FALSE]
       IN
       /\ decodeQ' = Without(decodeQ, ResumeAt(decodeQ))
       /\ CASE c.kind = "live" /\ c.ok ->
                /\ lastSched' =
                       [id |-> c.id, start |-> nextStartTimeRef,
                        end |-> nextStartTimeRef + c.dur,
                        contiguous |-> lastSched.id # 0 /\ ~resetSince,
                        behind |-> c.behind]
                /\ IF c.intr
                   THEN Interruption(sourcesRef \cup {c.id}, srcs \cup {src})
                   ELSE /\ nextStartTimeRef' = nextStartTimeRef + c.dur
                        /\ sourcesRef' = sourcesRef \cup {c.id}
                        /\ isAssistantSpeaking' = TRUE
                        /\ srcs' = srcs \cup {src}
                        /\ resetSince' = FALSE
                /\ lastEvt' = IF c.intr THEN "interrupted" ELSE "decoded"
                /\ UNCHANGED <<isLoadingText, refs, flags, errors>>
            [] c.kind = "live" /\ ~c.ok ->
                /\ catchDecodeError
                /\ IF c.intr
                   THEN Interruption(sourcesRef, srcs)
                   ELSE /\ isAssistantSpeaking' = FALSE
                        /\ UNCHANGED <<sourcesRef, nextStartTimeRef, srcs, resetSince>>
                /\ lastEvt' = IF c.intr THEN "interrupted" ELSE "decodeFailed"
                /\ UNCHANGED lastSched
            [] c.kind = "tts" /\ c.ok ->
                /\ sourcesRef' = sourcesRef \cup {c.id}
                /\ isAssistantSpeaking' = TRUE
                /\ srcs' = srcs \cup {src}
                /\ lastEvt' = "ttsPlayed"
                /\ UNCHANGED <<isLoadingText, refs, flags, errors, nextStartTimeRef,
                               resetSince, lastSched>>
            [] OTHER ->
                /\ isAssistantSpeaking' = FALSE
                /\ textError' = "audio"
                /\ lastEvt' = "ttsFailed"
                /\ UNCHANGED <<isLoadingText, refs, flags, liveError, sourcesRef,
                               nextStartTimeRef, srcs, resetSince, lastSched>>
    /\ threw' = FALSE
    /\ UNCHANGED <<mounted, others, scripts, startPc, conn, promises,
                   sent, devices, now, nChunks>>

\* An 'ended' listener that removes its source and leaves the flag alone.
EndedKeepsFlag(s) ==
    /\ Idle
    /\ s \in srcs
    /\ s.stopped \/ now >= s.end
    /\ srcs' = srcs \ {s}
    /\ sourcesRef' = sourcesRef \ {s.id}
    /\ lastEvt' = "ended" /\ threw' = FALSE
    /\ UNCHANGED <<mounted, others, isLoadingText, refs, flags, errors, scripts, startPc, conn,
                   promises, sent, devices, now, nextStartTimeRef, isAssistantSpeaking,
                   resetSince, chunks>>

\* The 'ended' listener of a source: it fires once, when the source has
\* played to its end or after source.stop().
Ended(s) ==
    /\ Idle
    /\ s \in srcs
    /\ s.stopped \/ now >= s.end
    /\ srcs' = srcs \ {s}
    /\ sourcesRef' = sourcesRef \ {s.id}
    /\ isAssistantSpeaking' =
          IF sourcesRef \ {s.id} = {} /\ ~(s.kind = "live" /\ s.intr)
          THEN FALSE ELSE isAssistantSpeaking
    /\ lastEvt' = "ended" /\ threw' = FALSE
    /\ UNCHANGED <<mounted, others, isLoadingText, refs, flags, errors, scripts, startPc, conn, promises, sent,
                   devices, now, nextStartTimeRef, resetSince, chunks>>

\* playGeneratedAudio (text-to-speech, voice preview, vocabulary audio) up to
\* its await, or through its catch block when atob rejects the payload.
playGeneratedAudio(audio, d) ==
    /\ Idle
    /\ mounted
    /\ audio # "ok" => d = 1
    /\ audio # "badBase64" => nChunks < MaxChunks
    /\ stopAllAudioPlayback
    /\ IF audio = "badBase64"
       THEN /\ textError' = "audio"
            /\ UNCHANGED <<decodeQ, nChunks>>
       ELSE /\ textError' = "null"
            /\ nChunks' = nChunks + 1
            /\ decodeQ' = Append(decodeQ,
                   [kind |-> "tts", sess |-> NoRef, id |-> nChunks + 1,
                    ok |-> audio = "ok", dur |-> d, intr |-> FALSE,
                    arr |-> now, behind |-> FALSE, sched |-> now])
    /\ lastEvt' = "tts" /\ threw' = FALSE
    /\ UNCHANGED <<mounted, others, isLoadingText, refs, flags, liveError, scripts, startPc, conn, promises, sent,
                   devices, now, lastSched>>

\* The output clock advances.
Tick ==
    /\ Idle
    /\ now < MaxClock
    /\ now' = now + 1
    /\ UNCHANGED <<mounted, others, isLoadingText, refs, flags, errors, scripts, startPc, conn, promises, sent,
                   devices, playback, chunks, lastEvt, threw>>

\* ---------------------------------------------------- the compact variant
\* The second App of src/App.tsx keeps the same refs and flags but a shorter
\* stopLiveConversation and shorter callbacks.  Its life cycle only: what it
\* plays is left out.

\* The compact stopLiveConversation: the stream, the node and the context
\* are released if their ref is set, and the refs stay set.
stopLiveConversationCompact(c) ==
    /\ IF sessionPromiseRef # NoRef /\ c[sessionPromiseRef] = "connecting"
       THEN /\ thenClose' = [thenClose EXCEPT ![sessionPromiseRef] = TRUE]
            /\ conn' = c
       ELSE /\ thenClose' = thenClose
            /\ conn' = IF sessionPromiseRef # NoRef
                       THEN SessionClose(c, sessionPromiseRef) ELSE c
    /\ sessionPromiseRef' = NoRef
    /\ stream' = IF mediaStreamRef # NoRef
                 THEN [stream EXCEPT ![mediaStreamRef] = Release(@)] ELSE stream
    /\ node' = IF scriptProcessorRef # NoRef
               THEN [node EXCEPT ![scriptProcessorRef] = Release(@)] ELSE node
    /\ ctx' = IF audioContextRef # NoRef
              THEN [ctx EXCEPT ![audioContextRef] = Release(@)] ELSE ctx
    /\ stopAllAudioPlayback
    /\ isLiveApiConnected' = FALSE
    /\ liveApiConnecting' = FALSE
    /\ UNCHANGED <<mediaStreamRef, scriptProcessorRef, analyserRef, audioContextRef>>

\* The compact handleApiError only reports.
handleApiErrorCompact == textError' = "api"

UserStopCompact ==
    /\ Idle
    /\ mounted /\ isLiveApiConnected /\ ~liveApiConnecting
    /\ stopLiveConversationCompact(conn)
    /\ lastEvt' = StopLabel("stop") /\ threw' = FALSE
    /\ UNCHANGED <<mounted, others, isLoadingText, errors, scripts, startPc, thenSend, sent, now, chunks>>

UnmountCompact ==
    /\ Idle
    /\ mounted
    /\ mounted' = FALSE
    /\ stopLiveConversationCompact(conn)
    /\ lastEvt' = StopLabel("unmount") /\ threw' = FALSE
    /\ UNCHANGED <<others, isLoadingText, errors, scripts, startPc, thenSend, sent, now, chunks>>

\* The compact startLiveConversation up to its first await; without
\* window.aistudio the call throws into the catch block.
StartCompact(k, sdk) ==
    /\ Idle
    /\ mounted /\ ~isLiveApiConnected /\ ~liveApiConnecting
    /\ startPc[k] = "none" /\ \A j \in Attempts : j < k => startPc[j] # "none"
    /\ IF sdk
       THEN /\ startPc' = [startPc EXCEPT ![k] = "awaitKey"]
            /\ liveApiConnecting' = TRUE
            /\ lastEvt' = "start"
            /\ UNCHANGED <<refs, isLiveApiConnected, errors, conn, thenClose, devices,
                           playback>>
       ELSE /\ startPc' = [startPc EXCEPT ![k] = "done"]
            /\ handleApiErrorCompact
            /\ stopLiveConversationCompact(conn)
            /\ lastEvt' = StopLabel("startFailed")
            /\ UNCHANGED liveError
    /\ threw' = FALSE
    /\ UNCHANGED <<mounted, others, isLoadingText, scripts, thenSend, sent, now, chunks>>

KeyCheckedCompact(k, hasKey) ==
    /\ Idle
    /\ startPc[k] = "awaitKey"
    /\ startPc' = [startPc EXCEPT ![k] = IF hasKey THEN "awaitMic" ELSE "awaitSelect"]
    /\ lastEvt' = "key" /\ threw' = FALSE
    /\ UNCHANGED <<mounted, others, isLoadingText, refs, flags, errors, scripts, conn, promises, sent,
                   devices, now, playback, chunks>>

KeySelectedCompact(k) ==
    /\ Idle
    /\ startPc[k] = "awaitSelect"
    /\ startPc' = [startPc EXCEPT ![k] = "awaitMic"]
    /\ lastEvt' = "key" /\ threw' = FALSE
    /\ UNCHANGED <<mounted, others, isLoadingText, refs, flags, errors, scripts, conn, promises, sent,
                   devices, now, playback, chunks>>

MicGrantedCompact(k) ==
    /\ Idle
    /\ startPc[k] = "awaitMic"
    /\ hasGetUserMedia /\ hasAudioContext
    /\ startPc' = [startPc EXCEPT ![k] = "done"]
    /\ mediaStreamRef' = k
    /\ stream' = [stream EXCEPT ![k] = "live"]
    /\ audioContextRef' = k
    /\ ctx' = [ctx EXCEPT ![k] = "live"]
    /\ sessionPromiseRef' = k
    /\ conn' = [conn EXCEPT ![k] = "connecting"]
    /\ lastEvt' = "mic" /\ threw' = FALSE
    /\ UNCHANGED <<mounted, others, isLoadingText, scriptProcessorRef, analyserRef, flags, errors, scripts,
                   promises, sent, node, now, playback, chunks>>

MicDeniedCompact(k) ==
    /\ Idle
    /\ startPc[k] = "awaitMic"
    /\ startPc' = [startPc EXCEPT ![k] = "done"]
    /\ handleApiErrorCompact
    /\ stopLiveConversationCompact(conn)
    /\ lastEvt' = StopLabel("micDenied") /\ threw' = FALSE
    /\ UNCHANGED <<mounted, others, isLoadingText, liveError, scripts, thenSend, sent, now, chunks>>

\* `await getUserMedia` resolves on a host without AudioContext: the stream is
\* stored, `new AudioContext` throws, and the catch block reports and stops.
ContextMissingCompact(k) ==
    /\ Idle
    /\ startPc[k] = "awaitMic"
    /\ hasGetUserMedia /\ ~hasAudioContext
    /\ startPc' = [startPc EXCEPT ![k] = "done"]
    /\ mediaStreamRef' = k
    /\ stream' = [stream EXCEPT ![k] = "released"]
    /\ handleApiErrorCompact
    /\ IF sessionPromiseRef # NoRef /\ conn[sessionPromiseRef] = "connecting"
       THEN /\ thenClose' = [thenClose EXCEPT ![sessionPromiseRef] = TRUE]
            /\ conn' = conn
       ELSE /\ thenClose' = thenClose
            /\ conn' = IF sessionPromiseRef # NoRef
                       THEN SessionClose(conn, sessionPromiseRef) ELSE conn
    /\ sessionPromiseRef' = NoRef
    /\ node' = IF scriptProcessorRef # NoRef
               THEN [node EXCEPT ![scriptProcessorRef] = Release(@)] ELSE node
    /\ ctx' = IF audioContextRef # NoRef
              THEN [ctx EXCEPT ![audioContextRef] = Release(@)] ELSE ctx
    /\ stopAllAudioPlayback
    /\ isLiveApiConnected' = FALSE
    /\ liveApiConnecting' = FALSE
    /\ lastEvt' = StopLabel("contextMissing") /\ threw' = FALSE
    /\ UNCHANGED <<mounted, others, isLoadingText, scriptProcessorRef, analyserRef,
                   audioContextRef, liveError, scripts, thenSend, sent, now, chunks>>

\* The compact onopen builds the chain on the context of its own closure.
onopenCompact(k) ==
    /\ conn[k] = "connecting"
    /\ \E refused \in (IF ctx[k] = "live" THEN {FALSE} ELSE BOOLEAN) :
        LET wired == mediaStreamRef # NoRef /\ ~refused IN
        /\ isLiveApiConnected' = TRUE
        /\ liveApiConnecting' = FALSE
        /\ scriptProcessorRef' = IF wired THEN k ELSE scriptProcessorRef
        /\ node' = IF wired THEN [node EXCEPT ![k] = "live"] ELSE node
        /\ threw' = ~wired
    /\ sent' = [sent EXCEPT ![k] = @ \/ thenSend[k]]
    /\ thenSend' = [thenSend EXCEPT ![k] = FALSE]
    /\ thenClose' = [thenClose EXCEPT ![k] = FALSE]
    /\ conn' = [conn EXCEPT ![k] = IF thenClose[k] THEN "closing" ELSE "open"]
    /\ lastEvt' = "open"
    /\ UNCHANGED <<mounted, others, isLoadingText, sessionPromiseRef, mediaStreamRef, analyserRef, audioContextRef,
                   errors, scripts, startPc, stream, ctx, now, playback, chunks>>

onaudioprocessCompact(k) ==
    /\ Idle
    /\ node[k] = "live" /\ ctx[k] = "live"
    /\ SendRealtimeInput(sessionPromiseRef)
    /\ lastEvt' = "frame"
    /\ UNCHANGED <<mounted, others, isLoadingText, refs, flags, errors, scripts, startPc, conn, thenClose,
                   devices, now, playback, chunks>>

\* The compact onerror reports and tears nothing down.
onerrorCompact(k) ==
    /\ conn[k] \in {"connecting", "open"}
    /\ handleApiErrorCompact
    /\ conn' = [conn EXCEPT ![k] = "closing"]
    /\ lastEvt' = "errorReported" /\ threw' = FALSE
    /\ UNCHANGED <<mounted, others, isLoadingText, refs, flags, liveError, scripts, startPc, promises, sent,
                   devices, now, playback, chunks>>

\* The compact onclose clears 'connected' and nothing else.
oncloseCompact(k) ==
    /\ conn[k] \in {"connecting", "open", "closing"}
    /\ conn' = [conn EXCEPT ![k] = "closed"]
    /\ isLiveApiConnected' = FALSE
    /\ lastEvt' = "close" /\ threw' = FALSE
    /\ UNCHANGED <<mounted, others, isLoadingText, refs, liveApiConnecting, errors, scripts, startPc, promises,
                   sent, devices, now, playback, chunks>>

\* ------------------------------------------- teardown, statement by statement
\* stopLiveConversation and onclose once more, one statement (or one guarded
\* block) per step, in the order of the source.  lastEvt names the statement
\* that ran last; while a handler is between two statements nothing else runs.
StepLabels ==
    {"stop:begin", "stop:handle", "stop:stream", "stop:node", "stop:analyser",
     "stop:context", "stop:playback", "stop:connected",
     "close:connected", "close:connecting", "close:error", "close:errorAbnormal",
     "close:transcripts", "close:transcriptsAbnormal"}

Between == lastEvt \in StepLabels

\* The click on the live button of a connected session enters stopLiveConversation.
UserStopBegin ==
    /\ Idle /\ ~Between
    /\ mounted /\ isLiveApiConnected /\ ~liveApiConnecting
    /\ lastEvt' = "stop:begin" /\ threw' = FALSE
    /\ UNCHANGED <<mounted, others, isLoadingText, refs, flags, errors, scripts, startPc, conn, promises, sent,
                   devices, now, playback, chunks>>

\* onerror: setLiveError, then it enters stopLiveConversation.
onerrorBegin(k) ==
    /\ ~Between
    /\ conn[k] \in {"connecting", "open"}
    /\ liveError' = "error"
    /\ conn' = [conn EXCEPT ![k] = "closing"]
    /\ lastEvt' = "stop:begin" /\ threw' = FALSE
    /\ UNCHANGED <<mounted, others, isLoadingText, refs, flags, textError, scripts, startPc, promises, sent,
                   devices, now, playback, chunks>>

\* sessionPromiseRef.current?.then(close); sessionPromiseRef.current = null
StopHandle ==
    /\ lastEvt = "stop:begin"
    /\ IF sessionPromiseRef # NoRef /\ conn[sessionPromiseRef] = "connecting"
       THEN /\ thenClose' = [thenClose EXCEPT ![sessionPromiseRef] = TRUE]
            /\ conn' = conn
       ELSE /\ thenClose' = thenClose
            /\ conn' = IF sessionPromiseRef # NoRef
                       THEN SessionClose(conn, sessionPromiseRef) ELSE conn
    /\ sessionPromiseRef' = NoRef
    /\ lastEvt' = "stop:handle"
    /\ UNCHANGED <<mounted, others, isLoadingText, mediaStreamRef, scriptProcessorRef, analyserRef, audioContextRef,
                   flags, errors, scripts, startPc, thenSend, sent, devices, now, playback,
                   chunks, threw>>

\* if (mediaStreamRef.current) { stop the tracks; mediaStreamRef.current = null }
StopStream ==
    /\ lastEvt = "stop:handle"
    /\ stream' = IF mediaStreamRef # NoRef
                 THEN [stream EXCEPT ![mediaStreamRef] = Release(@)] ELSE stream
    /\ mediaStreamRef' = NoRef
    /\ lastEvt' = "stop:stream"
    /\ UNCHANGED <<mounted, others, isLoadingText, sessionPromiseRef, scriptProcessorRef, analyserRef,
                   audioContextRef, flags, errors, scripts, startPc, conn, promises, sent,
                   node, ctx, now, playback, chunks, threw>>

\* if (scriptProcessorRef.current) { disconnect; onaudioprocess = null; ref = null }
StopNode ==
    /\ lastEvt = "stop:stream"
    /\ node' = IF scriptProcessorRef # NoRef
               THEN [node EXCEPT ![scriptProcessorRef] = Release(@)] ELSE node
    /\ scriptProcessorRef' = NoRef
    /\ lastEvt' = "stop:node"
    /\ UNCHANGED <<mounted, others, isLoadingText, sessionPromiseRef, mediaStreamRef, analyserRef, audioContextRef,
                   flags, errors, scripts, startPc, conn, promises, sent, stream, ctx, now,
                   playback, chunks, threw>>

\* if (analyserRef.current) { disconnect; analyserRef.current = null }
StopAnalyser ==
    /\ lastEvt = "stop:node"
    /\ analyserRef' = NoRef
    /\ lastEvt' = "stop:analyser"
    /\ UNCHANGED <<mounted, others, isLoadingText, sessionPromiseRef, mediaStreamRef, scriptProcessorRef,
                   audioContextRef, flags, errors, scripts, startPc, conn, promises, sent,
                   devices, now, playback, chunks, threw>>

\* if (audioContextRef.current) { close(); audioContextRef.current = null }
StopContext ==
    /\ lastEvt = "stop:analyser"
    /\ ctx' = IF audioContextRef # NoRef
              THEN [ctx EXCEPT ![audioContextRef] = Release(@)] ELSE ctx
    /\ audioContextRef' = NoRef
    /\ lastEvt' = "stop:context"
    /\ UNCHANGED <<mounted, others, isLoadingText, sessionPromiseRef, mediaStreamRef, scriptProcessorRef, analyserRef,
                   flags, errors, scripts, startPc, conn, promises, sent, stream, node, now,
                   playback, chunks, threw>>

\* stopAllAudioPlayback()
StopPlayback ==
    /\ lastEvt = "stop:context"
    /\ stopAllAudioPlayback
    /\ lastEvt' = "stop:playback"
    /\ UNCHANGED <<mounted, others, isLoadingText, refs, flags, errors, scripts, startPc, conn, promises, sent,
                   devices, now, chunks, threw>>

\* setIsLiveApiConnected(false)
StopConnected ==
    /\ lastEvt = "stop:playback"
    /\ isLiveApiConnected' = FALSE
    /\ lastEvt' = "stop:connected"
    /\ UNCHANGED <<mounted, others, isLoadingText, refs, liveApiConnecting, errors, scripts, startPc, conn, promises,
                   sent, devices, now, playback, chunks, threw>>

\* setLiveApiConnecting(false): stopLiveConversation returns
StopConnecting ==
    /\ lastEvt = "stop:connected"
    /\ liveApiConnecting' = FALSE
    /\ lastEvt' = "stop"
    /\ UNCHANGED <<mounted, others, isLoadingText, refs, isLiveApiConnected, errors, scripts, startPc, conn, promises,
                   sent, devices, now, playback, chunks, threw>>

\* onclose: setIsLiveApiConnected(false)
oncloseConnected(k) ==
    /\ ~Between
    /\ conn[k] \in {"connecting", "open", "closing"}
    /\ conn' = [conn EXCEPT ![k] = "closed"]
    /\ isLiveApiConnected' = FALSE
    /\ lastEvt' = "close:connected" /\ threw' = FALSE
    /\ UNCHANGED <<mounted, others, isLoadingText, refs, liveApiConnecting, errors, scripts, startPc, promises,
                   sent, devices, now, playback, chunks>>

\* onclose: setLiveApiConnecting(false)
oncloseConnecting ==
    /\ lastEvt = "close:connected"
    /\ liveApiConnecting' = FALSE
    /\ lastEvt' = "close:connecting"
    /\ UNCHANGED <<mounted, others, isLoadingText, refs, isLiveApiConnected, errors, scripts, startPc, conn, promises,
                   sent, devices, now, playback, chunks, threw>>

\* onclose: if (e.code !== 1000) setLiveError(...)
oncloseError(code) ==
    /\ lastEvt = "close:connecting"
    /\ liveError' = IF code # 1000 THEN "closed1006" ELSE liveError
    /\ lastEvt' = IF code # 1000 THEN "close:errorAbnormal" ELSE "close:error"
    /\ UNCHANGED <<mounted, others, isLoadingText, refs, flags, textError, scripts, startPc, conn, promises,
                   sent, devices, now, playback, chunks, threw>>

\* onclose: the two transcripts are cleared
oncloseTranscripts ==
    /\ lastEvt \in {"close:error", "close:errorAbnormal"}
    /\ liveInputTranscription' = "" /\ liveOutputTranscription' = ""
    /\ lastEvt' = IF lastEvt = "close:error" THEN "close:transcripts"
                  ELSE "close:transcriptsAbnormal"
    /\ UNCHANGED <<mounted, others, isLoadingText, refs, flags, errors, startPc, conn, promises,
                   sent, devices, now, playback, chunks, threw>>

\* onclose: setIsAssistantSpeaking(false): onclose returns
oncloseSpeaking ==
    /\ lastEvt \in {"close:transcripts", "close:transcriptsAbnormal"}
    /\ isAssistantSpeaking' = FALSE
    /\ lastEvt' = IF lastEvt = "close:transcripts" THEN "close" ELSE "closeAbnormal"
    /\ UNCHANGED <<mounted, others, isLoadingText, refs, flags, errors, scripts, startPc, conn, promises, sent,
                   devices, now, sourcesRef, nextStartTimeRef, srcs, resetSince, chunks,
                   threw>>

\* ---------------------------------------------------------- audio helpers

AppIdle ==
    UNCHANGED <<mounted, host, query, isLoadingText, refs, flags, errors, scripts, startPc,
                conn, promises, sent, devices, now, playback, chunks, lastEvt, threw>>

\* encode(bytes)
EncodeBytes ==
    /\ codecPc = "bytes"
    /\ base64' = encode(bytesIn)
    /\ codecPc' = "encoded"
    /\ AppIdle /\ UNCHANGED <<bytesIn, frame, bytesOut, buffer>>

\* createBlob(frame).data
CreateBlob ==
    /\ codecPc = "frame"
    /\ base64' = createBlob(frame)
    /\ codecPc' = "blob"
    /\ AppIdle /\ UNCHANGED <<bytesIn, frame, bytesOut, buffer>>

\* decode(base64)
DecodePayload ==
    /\ codecPc \in {"encoded", "blob"}
    /\ bytesOut' = decode(base64)
    /\ codecPc' = IF codecPc = "encoded" THEN "roundTrip" ELSE "pcm"
    /\ AppIdle /\ UNCHANGED <<bytesIn, frame, base64, buffer>>

\* decodeAudioData(bytes, ctx, rate, 1)
DecodeAudio ==
    /\ codecPc = "pcm"
    /\ buffer' = decodeAudioData(bytesOut)
    /\ codecPc' = "buffer"
    /\ AppIdle /\ UNCHANGED <<bytesIn, frame, base64, bytesOut>>

\* ------------------------------------------------------------ text query

\* One of the two query buttons, shown while no query is loading:
\* handleTextQuery up to `await generateContent`, or to its end when the
\* prompt matches a crisis keyword.
handleTextQuery(q, crisis) ==
    /\ Idle
    /\ mounted /\ ~isLoadingText
    /\ textPc[q] = "none" /\ \A j \in Queries : j < q => textPc[j] # "none"
    /\ textError' = "null"
    /\ IF crisis
       THEN /\ isLoadingText' = FALSE
            /\ textPc' = [textPc EXCEPT ![q] = "done"]
            /\ UNCHANGED textAbortControllerRef
       ELSE /\ isLoadingText' = TRUE
            /\ textPc' = [textPc EXCEPT ![q] = "generating"]
            /\ textAbortControllerRef' = q
    /\ lastEvt' = "textQuery" /\ threw' = FALSE
    /\ UNCHANGED <<mounted, host, codec, aborted, refs, flags, liveError, scripts, startPc, conn,
                   promises, sent, devices, now, playback, chunks>>

\* The "Stop Generating" button, shown while a query is loading.
handleStopTextQuery ==
    /\ Idle
    /\ mounted /\ isLoadingText
    /\ IF textAbortControllerRef # NoRef
       THEN /\ aborted' = [aborted EXCEPT ![textAbortControllerRef] = TRUE]
            /\ textAbortControllerRef' = NoRef
            /\ isLoadingText' = FALSE
            /\ textError' = "null"
            /\ stopAllAudioPlayback
       ELSE UNCHANGED <<aborted, textAbortControllerRef, isLoadingText, textError, playback>>
    /\ lastEvt' = "textStop" /\ threw' = FALSE
    /\ UNCHANGED <<mounted, host, codec, textPc, refs, flags, liveError, scripts, startPc, conn,
                   promises, sent, devices, now, chunks>>

\* The finally block of handleTextQuery.
TextFinally(q) ==
    /\ textAbortControllerRef' = IF textAbortControllerRef = q THEN NoRef
                                 ELSE textAbortControllerRef
    /\ isLoadingText' = FALSE
    /\ textPc' = [textPc EXCEPT ![q] = "done"]

\* `await generateContent` rejects, with an AbortError (only once abort() was
\* called) or with another error: the catch and the finally block.
TextRejected(q, err) ==
    /\ Idle
    /\ textPc[q] = "generating"
    /\ err = "abort" => aborted[q]
    /\ handleApiError(err)
    /\ TextFinally(q)
    /\ lastEvt' = IF err = "abort" THEN "textAborted" ELSE "textFailed"
    /\ threw' = FALSE
    /\ UNCHANGED <<mounted, host, codec, aborted, refs, isLiveApiConnected, scripts, startPc, conn,
                   promises, sent, devices, now, playback, chunks>>

\* `await generateContent` resolves with an empty text: handleTextToSpeech
\* clears the text error and returns at once, then the finally block runs.
TextResolved(q) ==
    /\ Idle
    /\ textPc[q] = "generating"
    /\ textError' = "null"
    /\ TextFinally(q)
    /\ lastEvt' = "textResponse" /\ threw' = FALSE
    /\ UNCHANGED <<mounted, host, codec, aborted, refs, flags, liveError, scripts, startPc, conn,
                   promises, sent, devices, now, playback, chunks>>

\* The compact handleTextQuery: the Enter key of the prompt starts it even
\* while another query is loading.
handleTextQueryCompact(q, crisis) ==
    /\ Idle
    /\ mounted
    /\ textPc[q] = "none" /\ \A j \in Queries : j < q => textPc[j] # "none"
    /\ textError' = "null"
    /\ IF crisis
       THEN /\ isLoadingText' = FALSE
            /\ textPc' = [textPc EXCEPT ![q] = "done"]
            /\ UNCHANGED textAbortControllerRef
       ELSE /\ isLoadingText' = TRUE
            /\ textPc' = [textPc EXCEPT ![q] = "generating"]
            /\ textAbortControllerRef' = q
    /\ lastEvt' = "textQuery" /\ threw' = FALSE
    /\ UNCHANGED <<mounted, host, codec, aborted, refs, flags, liveError, scripts, startPc, conn,
                   promises, sent, devices, now, playback, chunks>>

\* The compact stop button: textAbortControllerRef.current?.abort().
AbortCompact ==
    /\ Idle
    /\ mounted /\ isLoadingText
    /\ aborted' = IF textAbortControllerRef # NoRef
                  THEN [aborted EXCEPT ![textAbortControllerRef] = TRUE] ELSE aborted
    /\ lastEvt' = "textStop" /\ threw' = FALSE
    /\ UNCHANGED <<mounted, host, codec, isLoadingText, textAbortControllerRef, textPc, refs, flags,
                   errors, scripts, startPc, conn, promises, sent, devices, now, playback,
                   chunks>>

\* The compact catch block returns on an AbortError and reports anything
\* else; the finally block clears the loading flag.
TextRejectedCompact(q, err) ==
    /\ Idle
    /\ textPc[q] = "generating"
    /\ err = "abort" => aborted[q]
    /\ IF err = "abort" THEN UNCHANGED textError ELSE handleApiErrorCompact
    /\ isLoadingText' = FALSE
    /\ textPc' = [textPc EXCEPT ![q] = "done"]
    /\ lastEvt' = IF err = "abort" THEN "textAborted" ELSE "textFailed"
    /\ threw' = FALSE
    /\ UNCHANGED <<mounted, host, codec, textAbortControllerRef, aborted, refs, flags, liveError,
                   scripts, startPc, conn, promises, sent, devices, now, playback, chunks>>

\* The compact stream ends with an empty text: handleTextToSpeech returns at
\* once, then the finally block runs.
TextResolvedCompact(q) ==
    /\ Idle
    /\ textPc[q] = "generating"
    /\ isLoadingText' = FALSE
    /\ textPc' = [textPc EXCEPT ![q] = "done"]
    /\ lastEvt' = "textResponse" /\ threw' = FALSE
    /\ UNCHANGED <<mounted, host, codec, textAbortControllerRef, aborted, refs, flags, errors,
                   scripts, startPc, conn, promises, sent, devices, now, playback, chunks>>

\* --------------------------------------------------------- specifications

\* The life cycle of the sessions: every start, stop, open, close and error
\* of up to MaxStarts start requests, with the capture callbacks; the remote
\* sends transcripts and signals but no audio, and nothing is played.
SilentMessages == {m \in Messages : m.audio = "none" /\ m.dur = 1}

NextLife ==
    \/ StartRefused
    \/ UserStop
    \/ Unmount
    \/ \E k \in Attempts, sdk \in BOOLEAN : Start(k, sdk)
    \/ \E k \in Attempts, hasKey \in BOOLEAN : KeyChecked(k, hasKey)
    \/ \E k \in Attempts : KeySelected(k)
    \/ \E k \in Attempts : MicGranted(k)
    \/ \E k \in Attempts : MicDenied(k)
    \/ \E k \in Attempts : onopen(k)
    \/ \E k \in Attempts : onaudioprocess(k)
    \/ \E k \in Attempts, m \in SilentMessages : onmessage(k, m)
    \/ \E k \in Attempts : onerror(k)
    \/ \E k \in Attempts, code \in CloseCodes : onclose(k, code)

Spec == Init /\ [][NextLife]_vars

\* One session and what it plays, within one reading of the output clock:
\* the first start request goes through, the remote sends audio and
\* interruptions (no transcripts), clips are played by playGeneratedAudio,
\* and the session is torn down by the user, by an error, by a close or by
\* the unmount.  Sources end only by being stopped.
AudioMessages == {m \in Messages : m.input = "none" /\ ~m.output /\ ~m.turnComplete}
ShortMessages == {m \in AudioMessages : m.dur = 1}

NextPlay ==
    \/ UserStop
    \/ Unmount
    \/ Start(1, TRUE)
    \/ KeyChecked(1, TRUE)
    \/ MicGranted(1)
    \/ onopen(1)
    \/ \E m \in ShortMessages : onmessage(1, m)
    \/ onerror(1)
    \/ \E code \in CloseCodes : onclose(1, code)
    \/ Decoded
    \/ \E s \in srcs : Ended(s)
    \/ \E audio \in {"ok", "badBase64", "badPcm"} : playGeneratedAudio(audio, 1)

SpecPlay == Init /\ [][NextPlay]_vars

\* One open session and its playback cursor: the remote sends audio of every
\* duration that decodes, and interruptions, while the output clock runs;
\* a clip played by playGeneratedAudio or a stop resets the cursor.
CleanMessages ==
    {m \in AudioMessages : m.audio \in {"none", "ok"} /\ (m.audio = "none" => m.interrupted)}

NextSched ==
    \/ UserStop
    \/ Start(1, TRUE)
    \/ KeyChecked(1, TRUE)
    \/ MicGranted(1)
    \/ onopen(1)
    \/ \E m \in CleanMessages : onmessage(1, m)
    \/ Decoded
    \/ \E s \in srcs : Ended(s)
    \/ playGeneratedAudio("ok", 1)
    \/ Tick

SpecSched == Init /\ [][NextSched]_vars

\* One session whose messages carry input transcriptions with and without a
\* crisis keyword next to output text, audio that decodes, turnComplete and
\* interrupted, within one reading of the output clock.
CrisisMessages == {m \in Messages : m.dur = 1 /\ m.audio \in {"none", "ok"}}

NextCrisis ==
    \/ UserStop
    \/ Start(1, TRUE)
    \/ KeyChecked(1, TRUE)
    \/ MicGranted(1)
    \/ onopen(1)
    \/ \E m \in CrisisMessages : onmessage(1, m)
    \/ Decoded
    \/ \E s \in srcs : Ended(s)

SpecCrisis == Init /\ [][NextCrisis]_vars

\* The life cycle of the compact variant.
NextCompact ==
    \/ UserStopCompact
    \/ UnmountCompact
    \/ \E k \in Attempts, sdk \in BOOLEAN : StartCompact(k, sdk)
    \/ \E k \in Attempts, hasKey \in BOOLEAN : KeyCheckedCompact(k, hasKey)
    \/ \E k \in Attempts : KeySelectedCompact(k)
    \/ \E k \in Attempts : MicGrantedCompact(k)
    \/ \E k \in Attempts : MicDeniedCompact(k)
    \/ \E k \in Attempts : ContextMissingCompact(k)
    \/ \E k \in Attempts : onopenCompact(k)
    \/ \E k \in Attempts : onaudioprocessCompact(k)
    \/ \E k \in Attempts : onerrorCompact(k)
    \/ \E k \in Attempts : oncloseCompact(k)
    \/ \E q \in Queries, crisis \in BOOLEAN : handleTextQueryCompact(q, crisis)
    \/ AbortCompact
    \/ \E q \in Queries, err \in {"abort", "error"} : TextRejectedCompact(q, err)
    \/ \E q \in Queries : TextResolvedCompact(q)

SpecCompact == Init /\ [][NextCompact]_vars

\* The text query of the full App next to the start of a live session.
NextText ==
    \/ \E q \in Queries, crisis \in BOOLEAN : handleTextQuery(q, crisis)
    \/ handleStopTextQuery
    \/ \E q \in Queries, err \in {"abort", "error"} : TextRejected(q, err)
    \/ \E q \in Queries : TextResolved(q)
    \/ \E k \in Attempts : Start(k, TRUE)
    \/ \E k \in Attempts, hasKey \in BOOLEAN : KeyChecked(k, hasKey)
    \/ \E k \in Attempts : KeySelected(k)
    \/ \E k \in Attempts : MicGranted(k)
    \/ \E k \in Attempts : MicDenied(k)
    \/ \E k \in Attempts : onopen(k)
    \/ \E k \in Attempts : onerror(k)
    \/ \E audio \in {"ok", "badBase64"} : playGeneratedAudio(audio, 1)
    \/ Decoded

SpecText == Init /\ [][NextText]_vars

\* The helpers of part_000 applied to one input.
NextCodec ==
    \/ EncodeBytes
    \/ CreateBlob
    \/ DecodePayload
    \/ DecodeAudio

SpecCodec == InitCodec /\ [][NextCodec]_vars

\* The sessions with their teardowns taken statement by statement: start
\* requests that go through, chunks that decode, and stop, onerror and onclose.
PlainMessages == {m \in CleanMessages : m.audio = "ok" /\ ~m.interrupted /\ m.dur = 1}

NextSteps ==
    \/ ~Between /\ \E k \in Attempts : Start(k, TRUE)
    \/ ~Between /\ \E k \in Attempts : KeyChecked(k, TRUE)
    \/ ~Between /\ \E k \in Attempts : MicGranted(k)
    \/ ~Between /\ \E k \in Attempts : onopen(k)
    \/ ~Between /\ \E k \in Attempts, m \in PlainMessages : onmessage(k, m)
    \/ ~Between /\ Decoded
    \/ UserStopBegin
    \/ \E k \in Attempts : onerrorBegin(k)
    \/ StopHandle
    \/ StopStream
    \/ StopNode
    \/ StopAnalyser
    \/ StopContext
    \/ StopPlayback
    \/ StopConnected
    \/ StopConnecting
    \/ \E k \in Attempts : oncloseConnected(k)
    \/ oncloseConnecting
    \/ \E code \in CloseCodes : oncloseError(code)
    \/ oncloseTranscripts
    \/ oncloseSpeaking

SpecSteps == Init /\ [][NextSteps]_vars

\* ------------------------------------------------------------ properties

\* What stopLiveConversation is said to leave alone when it runs again.
Observed ==
    <<sessionPromiseRef, mediaStreamRef, scriptProcessorRef, audioContextRef,
      stream, node, ctx, thenClose, sourcesRef, nextStartTimeRef,
      isAssistantSpeaking, isLiveApiConnected, liveApiConnecting>>

\* C1: when a handler that ends in stopLiveConversation runs right after
\* another one, the second teardown leaves the session handle, the stream,
\* the node, the input context, the set of sources, the cursor and the three
\* flags as the first one left them, and throws nothing.
C1_TeardownIdempotent ==
    [][(lastEvt \in StopEvts /\ lastEvt' = "stopAgain")
          => (Observed' = Observed /\ ~threw')]_vars

\* Two teardowns in a row, the first of a session that was capturing and
\* playing.
C1_Witness ==
    /\ lastEvt = "stopAgain"
    /\ \E k \in Attempts : stream[k] = "released" /\ node[k] = "released"
    /\ \E s \in srcs : s.stopped

AllReleased ==
    /\ sessionPromiseRef = NoRef /\ mediaStreamRef = NoRef
    /\ scriptProcessorRef = NoRef /\ audioContextRef = NoRef
    /\ \A k \in Attempts : stream[k] # "live" /\ node[k] # "live" /\ ctx[k] # "live"

\* C3: once onclose has been processed with a code other than 1000, the
\* error that names the code is set and every resource of the session is
\* released.
C3_AbnormalCloseReleases ==
    lastEvt = "closeAbnormal" => (liveError = "closed1006" /\ AllReleased)

\* C4: a decode continuation of a live chunk that runs after the session
\* handle of its session was cleared adds no source, leaves the cursor where
\* it is and does not set the speaking flag.
C4_StaleDecodeNoOp ==
    [][(/\ Len(decodeQ') < Len(decodeQ)
        /\ decodeQ[ResumeAt(decodeQ)].kind = "live"
        /\ sessionPromiseRef # decodeQ[ResumeAt(decodeQ)].sess)
          => (/\ sourcesRef' = sourcesRef
              /\ nextStartTimeRef' = nextStartTimeRef
              /\ (isAssistantSpeaking' => isAssistantSpeaking))]_vars

\* C5: after the unmount nothing is acquired any more: no stream is kept, no
\* input context or session handle is set, no node is created and
\* 'connected' stays false.
C5_StaleConnectNoOp ==
    ~mounted =>
        /\ mediaStreamRef = NoRef /\ audioContextRef = NoRef
        /\ sessionPromiseRef = NoRef /\ scriptProcessorRef = NoRef
        /\ ~isLiveApiConnected

\* C6: right after a message that carries `interrupted` has been processed
\* to its end, the set of sources is empty, the speaking flag is false and
\* the cursor is 0.
C6_InterruptionClears ==
    lastEvt = "interrupted" =>
        (sourcesRef = {} /\ ~isAssistantSpeaking /\ nextStartTimeRef = 0)

\* An interruption carried with a chunk, while an earlier chunk was playing:
\* both sources were started and stopped.
C6_Witness ==
    /\ lastEvt = "interrupted"
    /\ \E s \in srcs : s.stopped /\ s.intr
    /\ \E s \in srcs : s.stopped /\ ~s.intr /\ s.kind = "live"

\* C7: a live chunk scheduled after another with no reset between them
\* starts no earlier than the other ends, and exactly when it ends if the
\* chunk arrived before the clock passed that end; and the cursor only goes
\* down by being reset to 0.
C7_MonotonicGapFree ==
    [][/\ (lastSched' # lastSched /\ lastSched'.contiguous) =>
             /\ lastSched'.start >= lastSched.end
             /\ decodeQ[ResumeAt(decodeQ)].arr <= lastSched.end
                    => lastSched'.start = lastSched.end
       /\ nextStartTimeRef' < nextStartTimeRef => nextStartTimeRef' = 0]_vars

\* A chunk scheduled back to back with the one before it.
C7_Witness ==
    /\ lastSched.contiguous
    /\ lastEvt = "decoded"
    /\ lastSched.start > 0

\* C8 as stated: the chunks are started in the order of their messages, and
\* a chunk delivered later never starts earlier.
C8_NeverEarlier ==
    [][(lastSched' # lastSched /\ lastSched.id # 0)
          => (lastSched'.id > lastSched.id /\ lastSched'.start >= lastSched.start)]_vars

\* C8: the chunks are started in the order of their messages, and a chunk
\* delivered later starts no earlier unless the cursor was reset between the
\* two.
C8_ArrivalOrder ==
    [][(lastSched' # lastSched /\ lastSched.id # 0)
          => (/\ lastSched'.id > lastSched.id
              /\ lastSched'.contiguous => lastSched'.start >= lastSched.start)]_vars

\* A chunk that arrived while the one before it was still being decoded, and
\* was started after it.
C8_Witness ==
    /\ lastSched.contiguous
    /\ lastSched.behind

C10_NoDoubleRelease ==
    \A k \in Attempts : stream[k] # "double" /\ node[k] # "double" /\ ctx[k] # "double"

\* C11: the statements of a stop, an onerror or an onclose that stop the
\* stream, disconnect the node, force-stop the playback or clear the
\* connected or the connecting flag run with the session handle already none.
C11_HandleClearedFirst ==
    [][lastEvt' \in {"stop:stream", "stop:node", "stop:playback", "stop:connected",
                     "close:connected", "close:connecting"}
          /\ lastEvt' # lastEvt
          => sessionPromiseRef = NoRef]_vars

\* C12: on a host without getUserMedia or without AudioContext no start gets
\* anywhere: the connecting flag is never true, no start call is suspended or
\* has run, no microphone stream exists and no connection was attempted; the
\* page shows the unsupported notice instead.
UnsupportedNotice == ~isLiveApiSupported

C12_CapabilityPrecondition ==
    ~(hasGetUserMedia /\ hasAudioContext) =>
        /\ UnsupportedNotice
        /\ ~liveApiConnecting /\ ~isLiveApiConnected
        /\ \A k \in Attempts :
              startPc[k] = "none" /\ stream[k] = "none" /\ conn[k] = "none"

C12_Witness == lastEvt = "startRefused" /\ hasGetUserMedia /\ ~hasAudioContext

TornDownWithError ==
    /\ sessionPromiseRef' = NoRef
    /\ mediaStreamRef # NoRef => stream'[mediaStreamRef] # "live"
    /\ scriptProcessorRef # NoRef => node'[scriptProcessorRef] # "live"
    /\ sourcesRef' = {} /\ \A s \in srcs' : s.stopped
    /\ ~isLiveApiConnected' /\ ~liveApiConnecting'
    /\ liveError' # "null"
    /\ \A k \in Attempts : startPc'[k] = startPc[k]

\* C14: the step of an onerror callback ends torn down, with a live error
\* message and without a new start (compact App).
C14_TransportErrorTearsDown ==
    [][lastEvt' = "errorReported" => TornDownWithError]_vars

\* The same for the onerror callback of the full App.
C14_FullOnerror ==
    [][(\E k \in Attempts : conn[k] \in {"connecting", "open"} /\ conn'[k] = "closing")
          /\ liveError' = "error" /\ lastEvt' \in {"error", "stopAgain"}
          => TornDownWithError]_vars

\* C15: the step in which the decoding of a live payload fails sets the error
\* messages and leaves the session handle, the stream, the node, the
\* connected flag, the websockets and the playing sources as they were; and
\* after it an open session still takes the next audio message.
C15_DecodeErrorNonFatal ==
    /\ [][lastEvt' = "decodeFailed" =>
             /\ liveError' = "api"
             /\ UNCHANGED <<sessionPromiseRef, mediaStreamRef, scriptProcessorRef,
                            isLiveApiConnected, conn, stream, node, sourcesRef, srcs>>]_vars
    /\ [](lastEvt = "decodeFailed" /\ nChunks < MaxChunks =>
             \A k \in Attempts : conn[k] = "open" =>
                 ENABLED (\E m \in ShortMessages : m.audio = "ok" /\ onmessage(k, m)))

C15_Witness ==
    /\ lastEvt = "decodeFailed" /\ liveError = "api"
    /\ isLiveApiConnected /\ sessionPromiseRef # NoRef /\ conn[sessionPromiseRef] = "open"
    /\ sourcesRef # {} /\ nChunks < MaxChunks

\* What C16 asks of the state after a failure with an AbortError: no
\* message, neither flag set.
SilentAfterAbort ==
    /\ textError' = "null" /\ liveError' = "null"
    /\ ~isLoadingText' /\ ~liveApiConnecting'

\* C16: the step in which a text query fails with an AbortError ends with
\* both messages null and the loading and the connecting flag false
\* (compact App).
C16_AbortNotAnError ==
    [][lastEvt' = "textAborted" => SilentAfterAbort]_vars

\* The same for the full App.
C16_FullAbort ==
    [][(\E q \in Queries : aborted[q] /\ textPc[q] = "generating" /\ textPc'[q] = "done")
          /\ lastEvt' = "textAborted" => SilentAfterAbort]_vars

C16_FullAbortWitness == lastEvt = "textAborted"

\* C17: decode(encode(bytes)) = bytes for every byte sequence, the empty one
\* included.
C17_Base64RoundTrip == codecPc = "roundTrip" => bytesOut = bytesIn

C17_Witness ==
    /\ codecPc = "roundTrip" /\ Len(bytesIn) = 2 /\ bytesIn[1] = 255
    /\ base64[4] = Pad /\ bytesOut = bytesIn

\* C18: every sample of a frame in [-1, 1] comes back from createBlob, decode
\* and decodeAudioData within 1/32768 of its value.
C18_PcmRoundTrip ==
    codecPc = "buffer" =>
        /\ Len(buffer) = Len(frame)
        /\ \A i \in 1..Len(frame) : Abs((buffer[i] * Steps) - frame[i]) <= Steps

\* The same for the frames that have no sample of exactly 1.0.
C18_BelowFullScale ==
    codecPc = "buffer" /\ (\A i \in 1..Len(frame) : frame[i] < Unit) =>
        /\ Len(buffer) = Len(frame)
        /\ \A i \in 1..Len(frame) : Abs((buffer[i] * Steps) - frame[i]) <= Steps

\* C19: whenever the set of active sources is empty and no decode
\* continuation is pending, 'assistant speaking' is false; and the 'ended'
\* listener that empties the set leaves the flag false.
C19_EmptyMeansSilent ==
    /\ [](sourcesRef = {} /\ Idle => ~isAssistantSpeaking)
    /\ [][lastEvt' = "ended" /\ sourcesRef # {} /\ sourcesRef' = {}
             => ~isAssistantSpeaking']_vars

C19_Witness ==
    /\ lastEvt = "ended" /\ sourcesRef = {} /\ ~isAssistantSpeaking
    /\ now > 0 /\ \A s \in srcs : ~s.stopped
    /\ lastSched.id # 0 /\ lastSched.end <= now

\* C20: the step of a user stop, of an onerror callback or of an unmount ends
\* with both transcripts empty.
C20_TeardownClearsTranscripts ==
    [][lastEvt' \in {"stop", "error", "unmount"} /\ lastEvt' # lastEvt
          => liveInputTranscription' = "" /\ liveOutputTranscription' = ""]_vars

\* Once no websocket is open or closing any more, the transcripts are empty.
C20_AfterClose ==
    /\ ~isLiveApiConnected /\ ~liveApiConnecting /\ sessionPromiseRef = NoRef
    /\ \A k \in Attempts : conn[k] \in {"none", "closed"}
    => liveInputTranscription = "" /\ liveOutputTranscription = ""

connection == <<refs, flags, conn, devices>>

\* A message of the life cycle that closes the turn is handled.
TurnCompleteStep(crisis) ==
    \E k \in Attempts, m \in SilentMessages :
        /\ m.turnComplete
        /\ checkSuicidalIntent(m.input) \in crisis
        /\ onmessage(k, m)

\* C22 as stated: every message with turnComplete empties both transcripts
\* and leaves the connection state unchanged.
C22_AnyTurnComplete ==
    [][TurnCompleteStep(BOOLEAN) =>
          /\ liveInputTranscription' = "" /\ liveOutputTranscription' = ""
          /\ UNCHANGED connection]_vars

\* C22: a message with turnComplete whose input transcription holds no
\* crisis keyword empties both transcript buffers and leaves the session
\* handle, the connected and connecting flags, the websocket, the microphone
\* stream and the processing node as they were.
C22_TurnCompleteFrame ==
    [][TurnCompleteStep({FALSE}) =>
          /\ liveInputTranscription' = "" /\ liveOutputTranscription' = ""
          /\ UNCHANGED connection]_vars

\* The turn was closed in an open session that had sent microphone frames.
C22_Witness ==
    /\ lastEvt = "turnComplete"
    /\ liveInputTranscription = "" /\ liveOutputTranscription = ""
    /\ isLiveApiConnected /\ sessionPromiseRef # NoRef
    /\ sent[sessionPromiseRef]
    /\ node[sessionPromiseRef] = "live" /\ stream[sessionPromiseRef] = "live"

\* A message of the life cycle marked interrupted is handled.
InterruptedStep(crisis) ==
    \E k \in Attempts, m \in SilentMessages :
        /\ m.interrupted
        /\ checkSuicidalIntent(m.input) \in crisis
        /\ onmessage(k, m)

\* The session in the handle is open and its capture chain is running.
Capturing(k) ==
    /\ sessionPromiseRef = k /\ conn[k] = "open"
    /\ node[k] = "live" /\ ctx[k] = "live" /\ stream[k] = "live"

\* C23 as stated: no interrupted message closes the session.
C23_AnyInterrupted ==
    [][InterruptedStep(BOOLEAN) =>
          UNCHANGED <<sessionPromiseRef, isLiveApiConnected, conn, stream, node>>]_vars

\* C23: an interrupted message whose input transcription holds no crisis
\* keyword leaves the session handle, the flags, the websocket, the
\* microphone stream and the processing node as they were, and after it the
\* next capture frame of a capturing session is still sent to that session.
C23_InterruptionFrame ==
    /\ [][InterruptedStep({FALSE}) => UNCHANGED <<connection, promises, sent>>]_vars
    /\ [](lastEvt = "interrupted" =>
             /\ \E k \in Attempts : conn[k] = "open"
             /\ \A k \in Attempts :
                   Capturing(k) => ENABLED (onaudioprocess(k) /\ sent'[k]))

\* After an interruption the session is open and connected and its capture
\* chain is running.
C23_Witness ==
    /\ lastEvt = "interrupted"
    /\ isLiveApiConnected /\ sessionPromiseRef # NoRef
    /\ Capturing(sessionPromiseRef)
    /\ ENABLED (onaudioprocess(sessionPromiseRef) /\ sent'[sessionPromiseRef])

\* A capture frame is taken only when the session in the handle has had its
\* onopen processed.
FrameAfterOpen ==
    [][lastEvt' = "frame" /\ sessionPromiseRef # NoRef =>
          conn[sessionPromiseRef] # "connecting"]_vars

\* No processing node outlives a teardown.
NoNodeAfterTeardown ==
    lastEvt \in StopEvts => \A k \in Attempts : node[k] # "live"

\* C24: no capture frame is encoded or sent before the onopen of the current
\* session has been processed, and the processing node exists only between
\* onopen and the next teardown.
C24_CaptureStartsOnOpen ==
    FrameAfterOpen /\ []NoNodeAfterTeardown

\* No live session is being established or active.
LiveIdle ==
    /\ sessionPromiseRef = NoRef
    /\ ~isLiveApiConnected /\ ~liveApiConnecting
    /\ \A k \in Attempts : startPc[k] \in {"none", "done"}
    /\ \A k \in Attempts : conn[k] \notin {"connecting", "open"}

\* C25: stopLiveConversation invoked while no live session is being
\* established or active changes nothing: it stops no source that is
\* playing, leaves ActiveSourceSet and 'assistant speaking' as they are, and
\* touches no ref, flag, websocket or device.
C25_StopWhenIdleNoOp ==
    [][LiveIdle /\ lastEvt' \in StopEvts =>
          UNCHANGED <<sourcesRef, srcs, isAssistantSpeaking, connection>>]_vars

\* The state Open of the session in the handle.
SessionOpen(k) ==
    /\ isLiveApiConnected /\ ~liveApiConnecting
    /\ node[k] = "live" /\ stream[k] = "live" /\ ctx[k] = "live"

\* After a teardown the live button accepts a new start request.
StartAcceptedAfterTeardown ==
    (/\ lastEvt \in StopEvts /\ mounted /\ isLiveApiSupported
     /\ \E k \in Attempts : startPc[k] = "none")
        => ENABLED (\E k \in Attempts : Start(k, TRUE))

\* The onopen of a session started after a teardown brings it to Open.
RestartReachesOpen ==
    [][\A k \in Attempts :
          (k > 1 /\ sessionPromiseRef = k /\ mediaStreamRef = k /\ onopen(k) /\ ~thenClose[k])
             => SessionOpen(k)']_vars

\* A restarted session that is open and has not been stopped is in Open.
RestartStaysOpen ==
    \A k \in Attempts :
        (k > 1 /\ sessionPromiseRef = k /\ mediaStreamRef = k /\ conn[k] = "open")
            => SessionOpen(k)

\* C26: after a teardown a new start request is accepted; when its
\* microphone is granted and the remote opens, the new session reaches Open
\* (connected, not connecting, capture wired) and stays there until its own
\* stop, error or close.
C26_RestartAfterTeardown ==
    /\ []StartAcceptedAfterTeardown
    /\ RestartReachesOpen
    /\ []RestartStaysOpen

\* A callback of a session is delivered after a later session was started
\* (its connection was requested and it has not been closed).
LateEvent ==
    \E j \in Attempts :
        /\ \E k \in Attempts : k > j /\ sessionPromiseRef = k /\ conn[k] \in {"connecting", "open"}
        /\ \/ onopen(j)
           \/ onerror(j)
           \/ \E code \in CloseCodes : onclose(j, code)
           \/ \E m \in SilentMessages : onmessage(j, m)

\* C27: an event of a previous session that is delivered after a new session
\* has been started changes neither the connected and connecting flags, the
\* transcript buffers, the error message, ActiveSourceSet nor nextStartTime.
C27_SessionIsolation ==
    [][LateEvent =>
          UNCHANGED <<flags, scripts, liveError, sourcesRef, nextStartTimeRef>>]_vars

\* C28: whenever ActiveSourceSet holds a source that was not stopped and has
\* not played to its end, 'assistant speaking' is true.
C28_PlayingMeansSpeaking ==
    (\E s \in srcs : s.id \in sourcesRef /\ ~s.stopped /\ now < s.end)
        => isAssistantSpeaking

\* A message whose input transcription holds a crisis keyword is handled.
CrisisStep ==
    \E k \in Attempts, m \in CrisisMessages : m.input = "crisis" /\ onmessage(k, m)

\* C29: a message whose input transcription holds a crisis keyword tears the
\* session down as stopLiveConversation does (handle and refs cleared, flags
\* false, websocket closing, capture chain released, sources stopped and
\* ActiveSourceSet empty), and nothing else of the message is processed: no
\* transcript buffer changes and no audio payload is queued or scheduled.
C29_CrisisCutOff ==
    [][CrisisStep =>
          /\ sessionPromiseRef' = NoRef /\ mediaStreamRef' = NoRef
          /\ scriptProcessorRef' = NoRef /\ audioContextRef' = NoRef
          /\ ~isLiveApiConnected' /\ ~liveApiConnecting'
          /\ \A k \in Attempts :
                /\ conn'[k] \notin {"connecting", "open"}
                /\ stream'[k] # "live" /\ node'[k] # "live" /\ ctx'[k] # "live"
          /\ sourcesRef' = {} /\ ~isAssistantSpeaking' /\ nextStartTimeRef' = 0
          /\ \A s \in srcs' : s.stopped
          /\ UNCHANGED <<scripts, decodeQ, nChunks, lastSched>>]_vars

\* The crisis message arrived in a session that had text in a transcript
\* buffer and a chunk playing: the session is closed, the chunk stopped, the
\* text as it was.
C29_Witness ==
    /\ lastEvt = "crisis"
    /\ sessionPromiseRef = NoRef /\ conn[1] = "closing"
    /\ stream[1] = "released" /\ node[1] = "released"
    /\ liveOutputTranscription = "t" /\ liveInputTranscription = ""
    /\ \E s \in srcs : s.kind = "live" /\ s.stopped
    /\ decodeQ = <<>>

\* At most one microphone stream is acquired and not released.
OneStreamLive == Cardinality({k \in Attempts : stream[k] = "live"}) <= 1

\* With the handle empty, both flags false and no start in flight, no
\* stream, processing node or input context is left unreleased.
IdleHoldsNothing ==
    (/\ sessionPromiseRef = NoRef /\ ~isLiveApiConnected /\ ~liveApiConnecting
     /\ \A k \in Attempts : startPc[k] \in {"none", "done"})
        => \A k \in Attempts :
              stream[k] # "live" /\ node[k] # "live" /\ ctx[k] # "live"

\* C30: at most one microphone stream is live at a time, and in Idle no
\* stream, node or input context remains unreleased.
C30_SingleLiveCapture == OneStreamLive /\ IdleHoldsNothing

====
